---- MODULE Spec2Model ----
(***************************************************************************)
(* A model of src/src/lib.rs: a separate-chaining hash map from string     *)
(* keys to i32 values with FNV-1a hashing and load-factor driven resizing. *)
(*                                                                         *)
(* Representation notes.                                                   *)
(*  - A key (Rust &str) is the sequence of its UTF-8 bytes.                *)
(*  - A u64 is a sequence of 8 limbs, base 256, least significant first    *)
(*    (the model checker's integers are 32 bits wide).                     *)
(*  - An f32 is <<m, e>> standing for m * 2^e, with 2^23 <= m < 2^24, or   *)
(*    <<0, 0>> for 0.0.  Arithmetic rounds to nearest, ties to even, as    *)
(*    IEEE-754 binary32 does.                                              *)
(*  - Vec index i of the code is index i + 1 of the sequence here.         *)
(***************************************************************************)
EXTENDS Integers, Sequences, FiniteSets, TLC

\* ------------------------------------------------------------------ bounds

\* Number of keys "0", "1", ... the driver loop may insert (the loop of
\* tests::correct_item_count, cut short).
MaxLoop == 31

\* The same cut for the specification that also makes the read-only calls.
MaxApiLoop == 16

\* The same cut for the specification that runs the loop alone, far enough
\* for more than 40 buckets and for several shrinks in a row.
MaxDeepLoop == 50

\* The longest key and the largest bucket count hash is called with on its own.
MaxKeyLen == 3
MaxHashBuckets == 12

\* How many times the table has grown, at most, in the specification of the
\* resize policy on its own, and how far from the two thresholds the entry
\* counts it is evaluated on lie.
MaxChain == 42
MaxSlack == 2

\* ------------------------------------------------------------- u64 and FNV

RECURSIVE XorBits(_, _, _)
\* Bitwise exclusive or of the low n bits of a and b.
XorBits(a, b, n) ==
    IF n = 0 THEN 0
    ELSE (((a % 2) + (b % 2)) % 2) + 2 * XorBits(a \div 2, b \div 2, n - 1)

\* hash ^= *octet as u64 : only the lowest limb changes.
U64XorByte(h, octet) == [h EXCEPT ![1] = XorBits(h[1], octet, 8)]

RECURSIVE ColSum(_, _, _, _)
\* Sum of a[i] * b[k - i] over limb positions i..k (0-based positions).
ColSum(a, b, k, i) ==
    IF i > k THEN 0
    ELSE a[i + 1] * b[k - i + 1] + ColSum(a, b, k, i + 1)

RECURSIVE MulLimbs(_, _, _, _)
\* Limbs k..7 of a * b, with the carry coming into limb k.
MulLimbs(a, b, k, carry) ==
    IF k > 7 THEN << >>
    ELSE LET s == ColSum(a, b, k, 0) + carry
         IN  << s % 256 >> \o MulLimbs(a, b, k + 1, s \div 256)

\* u64::wrapping_mul : the product modulo 2^64.
WrappingMul(a, b) == MulLimbs(a, b, 0, 0)

RECURSIVE U64ModFrom(_, _, _, _)
U64ModFrom(h, n, i, r) ==
    IF i = 0 THEN r
    ELSE U64ModFrom(h, n, i - 1, ((r * 256) + h[i]) % n)

\* (hash as usize) % n for a 64-bit usize, 1 <= n.
U64Mod(h, n) == U64ModFrom(h, n, 8, 0)

\* 14695981039346656037 = 0xCBF29CE484222325
FNV_OFFSET_BASIS == << 37, 35, 34, 132, 228, 156, 242, 203 >>

\* 1099511628211 = 0x00000100000001B3
FNV_PRIME == << 179, 1, 0, 0, 0, 1, 0, 0 >>

RECURSIVE Fnv1From(_, _, _)
\* Mutant of Fnv1aFrom: multiply first, then xor (FNV-1 instead of FNV-1a).
Fnv1From(key, i, h) ==
    IF i > Len(key) THEN h
    ELSE Fnv1From(key, i + 1, U64XorByte(WrappingMul(h, FNV_PRIME), key[i]))

RECURSIVE Fnv1aFrom(_, _, _)
\* The loop over key.as_bytes() from byte i on, with accumulator h.
Fnv1aFrom(key, i, h) ==
    IF i > Len(key) THEN h
    ELSE Fnv1aFrom(key, i + 1, WrappingMul(U64XorByte(h, key[i]), FNV_PRIME))

\* The accumulator of HashMap::hash before the final modulo.
Fnv1a(key) == Fnv1aFrom(key, 1, FNV_OFFSET_BASIS)

\* ------------------------------------------------------------------- keys

RECURSIVE to_string(_)
\* i.to_string() for i >= 0: the decimal digits as ASCII bytes.
to_string(i) ==
    IF i < 10 THEN << 48 + i >>
    ELSE to_string(i \div 10) \o << 48 + (i % 10) >>

\* "test", the key of tests::item_not_found and tests::item_found.
KeyTest == << 116, 101, 115, 116 >>

\* "a", a second key callers use freely.
KeyA == << 97 >>

FreeKeys == { KeyTest, KeyA }

LoopKeys == { to_string(i) : i \in 0 .. MaxLoop }

Keys == FreeKeys \cup LoopKeys

\* The keys of the loop run alone.
DeepLoopKeys == { to_string(i) : i \in 0 .. MaxDeepLoop }

\* Values callers store under the free keys (tests::item_found stores 5).
Values == { 5, -7 }

\* Fnv1a over the keys in use, computed once.
FnvTable == [ k \in Keys \cup DeepLoopKeys |-> Fnv1a(k) ]

\* HashMap::hash
hash(key, bucket_count) ==
    U64Mod(IF key \in DOMAIN FnvTable THEN FnvTable[key] ELSE Fnv1a(key),
           bucket_count)

\* -------------------------------------------------------------------- f32

RECURSIVE Pow2(_)
Pow2(n) == IF n = 0 THEN 1 ELSE 2 * Pow2(n - 1)

TwoTo23 == Pow2(23)
TwoTo24 == Pow2(24)

RECURSIVE RoundNearestEven(_, _, _)
\* The f32 nearest to (q + f) * 2^e, where 0 <= f < 1 and f # 0 iff sticky;
\* ties go to the even mantissa.  An inexact value comes with q >= 2^25.
RoundNearestEven(q, e, sticky) ==
    IF q = 0 THEN << 0, 0 >>
    ELSE IF q < TwoTo23 THEN RoundNearestEven(2 * q, e - 1, sticky)
    ELSE IF q < TwoTo24 THEN << q, e >>
    ELSE LET half == q \div 2
             bit  == q % 2
         IN  IF half >= TwoTo24
             THEN RoundNearestEven(half, e + 1, sticky \/ bit = 1)
             ELSE LET up == IF bit = 1 /\ (sticky \/ half % 2 = 1) THEN 1 ELSE 0
                      m  == half + up
                  IN  IF m = TwoTo24 THEN << TwoTo23, e + 2 >> ELSE << m, e + 1 >>

\* n as f32, for an unsigned integer n.
F32FromInt(n) == RoundNearestEven(n, 0, FALSE)

RECURSIVE OddPart(_)
\* x = <<m, e>> with the factors of two moved from m into e.
OddPart(x) ==
    IF x[1] = 0 \/ x[1] % 2 = 1 THEN x
    ELSE OddPart(<< x[1] \div 2, x[2] + 1 >>)

TwoTo12 == Pow2(12)

RECURSIVE MulRound(_, _, _, _)
\* The f32 nearest to (hi * 2^n + lo) * 2^e, where lo < 2^n: bits of lo are
\* moved into hi until hi has 26 bits, the rest of lo is the sticky bit.
MulRound(hi, lo, n, e) ==
    IF n = 0 THEN RoundNearestEven(hi, e, FALSE)
    ELSE IF hi >= 2 * TwoTo24 THEN RoundNearestEven(hi, e + n, lo # 0)
    ELSE LET top == Pow2(n - 1)
         IN  MulRound((2 * hi) + (lo \div top), lo % top, n - 1, e)

\* x * y in f32: the exact product of the mantissas, held as hi * 2^24 + lo
\* and built from 12-bit halves so that no partial sum passes 2^31, rounded
\* once.
F32Mul(x, y) ==
    LET a == OddPart(x)
        b == OddPart(y)
        ah == a[1] \div TwoTo12
        al == a[1] % TwoTo12
        bh == b[1] \div TwoTo12
        bl == b[1] % TwoTo12
        mid == (ah * bl) + (al * bh)
        low == (al * bl) + ((mid % TwoTo12) * TwoTo12)
        hi  == (ah * bh) + (mid \div TwoTo12) + (low \div TwoTo24)
    IN  MulRound(hi, low % TwoTo24, 24, a[2] + b[2])

RECURSIVE LongDiv(_, _, _, _)
\* Binary long division: quotient bits are appended to q until it has 26
\* bits or the remainder r is zero; the value is (q + r / d) * 2^e.
LongDiv(q, r, d, e) ==
    IF r = 0 \/ q >= 2 * TwoTo24 THEN RoundNearestEven(q, e, r # 0)
    ELSE LET r2 == 2 * r
         IN  IF r2 >= d THEN LongDiv((2 * q) + 1, r2 - d, d, e - 1)
                        ELSE LongDiv(2 * q, r2, d, e - 1)

\* x / y in f32, y # 0.
F32Div(x, y) ==
    LET a == OddPart(x)
        b == OddPart(y)
    IN  LongDiv(a[1] \div b[1], a[1] % b[1], b[1], a[2] - b[2])

\* x < y for non-negative f32 values.
F32Lt(x, y) ==
    IF y[1] = 0 THEN FALSE
    ELSE IF x[1] = 0 THEN TRUE
    ELSE x[2] < y[2] \/ (x[2] = y[2] /\ x[1] < y[1])

F32Gt(x, y) == F32Lt(y, x)

\* x.ceil() as usize, for a non-negative f32 below 2^31.
F32CeilToInt(x) ==
    IF x[1] = 0 THEN 0
    ELSE IF x[2] >= 0 THEN x[1] * Pow2(x[2])
    ELSE IF x[2] <= -24 THEN 1
    ELSE (x[1] + Pow2(-x[2]) - 1) \div Pow2(-x[2])

\* ---------------------------------------------------------------- tunables

MIN_BUCKET_COUNT == 10

\* 1.5f32 = 12582912 * 2^-23
MAX_LOAD_FACTOR == << 12582912, -23 >>

\* Mutant of MIN_LOAD_FACTOR: 1.25f32 = 10485760 * 2^-23, a mistyped 0.25.
MIN_LOAD_FACTOR_TYPO == << 10485760, -23 >>

\* 0.25f32 = 8388608 * 2^-25
MIN_LOAD_FACTOR == << 8388608, -25 >>

\* 1.4f32 = 11744051 * 2^-23 (the f32 nearest to 1.4, just below it)
RESIZE_FACTOR == << 11744051, -23 >>

\* ------------------------------------------------------------------- state

VARIABLES
    buckets,        \* HashMap.buckets : Vec<Vec<(String, i32)>>
    entries_count,  \* HashMap.entries_count : u32
    printed,        \* the lines the last call wrote to stdout (resize prints)
    call,           \* the public call made last, with its arguments
    ret,            \* what that call returned
    pre,            \* what the caller saw just before that call
    shadow          \* the caller's own record: key -> value last stored

vars == << buckets, entries_count, printed, call, ret, pre, shadow >>

\* The struct HashMap as a value, with the standard output beside it.
Table(b, n, out) == [ buckets |-> b, entries_count |-> n, printed |-> out ]

\* self at the start of a call.
Self == Table(buckets, entries_count, << >>)

\* Return values.
Unit == [ kind |-> "unit" ]
None == [ kind |-> "None" ]
Some(v) == [ kind |-> "Some", val |-> v ]
Ok(v) == [ kind |-> "Ok", val |-> v ]
Err(msg) == [ kind |-> "Err", val |-> msg ]

\* ------------------------------------------------------------- operations

\* HashMap::new
new == Table([ i \in 1 .. MIN_BUCKET_COUNT |-> << >> ], 0, << >>)

\* The position of the first entry of bucket v with this key, 0 if none
\* (the scan `for i in 0..v.len()` of get and delete).
FirstMatch(v, key) ==
    IF \E i \in 1 .. Len(v) : v[i][1] = key
    THEN CHOOSE i \in 1 .. Len(v) :
             /\ v[i][1] = key
             /\ \A j \in 1 .. (i - 1) : v[j][1] # key
    ELSE 0

\* Mutant of Remove: v.pop() in place of v.remove(i).
RemoveLast(v, i) == SubSeq(v, 1, Len(v) - 1)

\* Mutant of Remove: v.swap_remove(i), the last entry takes the place of i.
RemoveSwap(v, i) ==
    IF i = Len(v) THEN SubSeq(v, 1, Len(v) - 1)
    ELSE SubSeq([ v EXCEPT ![i] = v[Len(v)] ], 1, Len(v) - 1)

\* Vec::remove(i), i being a position of v.
Remove(v, i) == SubSeq(v, 1, i - 1) \o SubSeq(v, i + 1, Len(v))

\* Mutant of get: the scan returns the first entry without comparing keys.
get_any(t, key) ==
    LET bucket == t.buckets[hash(key, Len(t.buckets)) + 1]
    IN  IF Len(bucket) > 0 THEN Some(bucket[1][2]) ELSE None

\* HashMap::get
get(t, key) ==
    LET bucket == t.buckets[hash(key, Len(t.buckets)) + 1]
        i      == FirstMatch(bucket, key)
    IN  IF i # 0 THEN Some(bucket[i][2]) ELSE None

\* Mutant of get_bucket: the last bucket is refused as well.
get_bucket_short(t, idx) ==
    IF idx + 1 < Len(t.buckets) THEN Ok(t.buckets[idx + 1])
    ELSE Err("bucket index out of bounds")

\* HashMap::get_bucket
get_bucket(t, idx) ==
    IF idx < Len(t.buckets) THEN Ok(t.buckets[idx + 1])
    ELSE Err("bucket index out of bounds")

\* HashMap::get_entries_count
get_entries_count(t) == t.entries_count

\* HashMap::get_buckets_count
get_buckets_count(t) == Len(t.buckets)

RECURSIVE Flatten(_, _)
\* The entries of buckets i.. in the order the loops of resize visit them.
Flatten(bs, i) ==
    IF i > Len(bs) THEN << >> ELSE bs[i] \o Flatten(bs, i + 1)

RECURSIVE RehashOverwrite(_, _, _, _)
\* Mutant of Rehash: the item replaces the new bucket instead of joining it.
RehashOverwrite(items, i, new_buckets, new_bucket_count) ==
    IF i > Len(items) THEN new_buckets
    ELSE LET j == hash(items[i][1], new_bucket_count) + 1
         IN  RehashOverwrite(items, i + 1,
                             [ new_buckets EXCEPT ![j] = << items[i] >> ],
                             new_bucket_count)

RECURSIVE Rehash(_, _, _, _)
\* The inner loop body of resize, for items i.. : push each onto its bucket.
Rehash(items, i, new_buckets, new_bucket_count) ==
    IF i > Len(items) THEN new_buckets
    ELSE LET j == hash(items[i][1], new_bucket_count) + 1
         IN  Rehash(items, i + 1,
                    [ new_buckets EXCEPT ![j] = Append(@, items[i]) ],
                    new_bucket_count)

\* Mutant of resize: the entries are pushed onto the old buckets, the vector
\* lengthened or cut to the new count, instead of onto fresh empty ones.
resize_in_place(t, new_bucket_count) ==
    LET kept == [ i \in 1 .. new_bucket_count |->
                    IF i <= Len(t.buckets) THEN t.buckets[i] ELSE << >> ]
    IN  Table(Rehash(Flatten(t.buckets, 1), 1, kept, new_bucket_count),
              t.entries_count,
              Append(t.printed, new_bucket_count))

\* Mutant of resize: the entries are rehashed under the old bucket count.
resize_old_count(t, new_bucket_count) ==
    LET empty == [ i \in 1 .. new_bucket_count |-> << >> ]
        old   == Len(t.buckets)
    IN  Table([ i \in 1 .. new_bucket_count |->
                  IF i <= old THEN Rehash(Flatten(t.buckets, 1), 1,
                                          [ j \in 1 .. old |-> << >> ], old)[i]
                  ELSE << >> ],
              t.entries_count,
              Append(t.printed, new_bucket_count))

\* HashMap::resize
resize(t, new_bucket_count) ==
    LET empty == [ i \in 1 .. new_bucket_count |-> << >> ]
    IN  Table(Rehash(Flatten(t.buckets, 1), 1, empty, new_bucket_count),
              t.entries_count,
              Append(t.printed, new_bucket_count))

\* self.entries_count as f32 / self.buckets.len() as f32
F32Ratio(e, b) == F32Div(F32FromInt(e), F32FromInt(b))

\* (len as f32 * RESIZE_FACTOR).ceil() as usize
GrowSize(n) == F32CeilToInt(F32Mul(F32FromInt(n), RESIZE_FACTOR))

\* (len as f32 / RESIZE_FACTOR).ceil() as usize
ShrinkSize(n) == F32CeilToInt(F32Div(F32FromInt(n), RESIZE_FACTOR))

\* The three computations above over the counts in use, computed once.
MaxEntries ==
    IF MaxDeepLoop > MaxLoop + Cardinality(FreeKeys)
    THEN MaxDeepLoop ELSE MaxLoop + Cardinality(FreeKeys)
TableEntries == 0 .. MaxEntries
TableBuckets == 1 .. (MaxEntries + MIN_BUCKET_COUNT)
RatioTable == [ e \in TableEntries, b \in TableBuckets |-> F32Ratio(e, b) ]
GrowTable == [ b \in TableBuckets |-> GrowSize(b) ]
ShrinkTable == [ b \in TableBuckets |-> ShrinkSize(b) ]

\* let load_factor = ... of resize_if_necessary
LoadFactor(t) ==
    IF t.entries_count \in TableEntries /\ Len(t.buckets) \in TableBuckets
    THEN RatioTable[t.entries_count, Len(t.buckets)]
    ELSE F32Ratio(t.entries_count, Len(t.buckets))

\* load_factor > MAX_LOAD_FACTOR
GrowCond(load_factor) == F32Gt(load_factor, MAX_LOAD_FACTOR)

\* Mutant of ShrinkCond: >= in place of > in the guard on the bucket count.
ShrinkCondGe(load_factor, len) ==
    /\ F32Lt(load_factor, MIN_LOAD_FACTOR)
    /\ len \div 2 >= MIN_BUCKET_COUNT

\* Mutant of ShrinkCond: the guard on the bucket count is missing.
ShrinkCondNoFloor(load_factor, len) == F32Lt(load_factor, MIN_LOAD_FACTOR)

\* load_factor < MIN_LOAD_FACTOR && self.buckets.len() / 2 > MIN_BUCKET_COUNT
ShrinkCond(load_factor, len) ==
    /\ F32Lt(load_factor, MIN_LOAD_FACTOR)
    /\ len \div 2 > MIN_BUCKET_COUNT

\* let new_size = ... of the first branch
GrowTo(len) == IF len \in TableBuckets THEN GrowTable[len] ELSE GrowSize(len)

\* let new_size = ... of the second branch
ShrinkTo(len) == IF len \in TableBuckets THEN ShrinkTable[len] ELSE ShrinkSize(len)

\* HashMap::resize_if_necessary
resize_if_necessary(t) ==
    LET load_factor == LoadFactor(t)
        len         == Len(t.buckets)
    IN  IF GrowCond(load_factor) THEN resize(t, GrowTo(len))
        ELSE IF ShrinkCond(load_factor, len) THEN resize(t, ShrinkTo(len))
        ELSE t

\* What resize_if_necessary decides, as a function of the two numbers it
\* reads: the bucket count the table has when it returns.
resize_target(entries, len) ==
    LET load_factor == F32Ratio(entries, len)
    IN  IF GrowCond(load_factor) THEN GrowSize(len)
        ELSE IF ShrinkCond(load_factor, len) THEN ShrinkSize(len)
        ELSE len

\* Mutant of delete: the count is not decremented.
delete_no_decrement(t, key) ==
    LET bucket_index == hash(key, Len(t.buckets)) + 1
        v            == t.buckets[bucket_index]
        i            == FirstMatch(v, key)
    IN  IF i # 0
        THEN [ t EXCEPT !.buckets[bucket_index] = Remove(v, i) ]
        ELSE resize_if_necessary(t)

\* HashMap::delete : a found key returns from inside the loop, before the
\* call of resize_if_necessary.
delete(t, key) ==
    LET bucket_index == hash(key, Len(t.buckets)) + 1
        v            == t.buckets[bucket_index]
        i            == FirstMatch(v, key)
    IN  IF i # 0
        THEN [ t EXCEPT !.buckets[bucket_index] = Remove(v, i),
                        !.entries_count = @ - 1 ]
        ELSE resize_if_necessary(t)

\* Mutant of set: the old entry is not deleted first.
set_no_delete(t, key, value) ==
    LET bucket_index == hash(key, Len(t.buckets)) + 1
        pushed       == [ t EXCEPT !.buckets[bucket_index] =
                                       Append(@, << key, value >>),
                                   !.entries_count = @ + 1 ]
    IN  resize_if_necessary(pushed)

\* Mutant of set: the bucket index is computed before the delete, which may
\* have resized.
set_stale_index(t, key, value) ==
    LET bucket_index == hash(key, Len(t.buckets)) + 1
        d            == delete(t, key)
        pushed       == [ d EXCEPT !.buckets =
                              IF bucket_index <= Len(d.buckets)
                              THEN [ d.buckets EXCEPT ![bucket_index] =
                                         Append(@, << key, value >>) ]
                              ELSE d.buckets,
                                   !.entries_count = @ + 1 ]
    IN  resize_if_necessary(pushed)

\* Mutant of SetBucketIndex: the index is taken before the delete.
SetBucketIndexStale(t, d, key) == hash(key, Len(t.buckets))

\* let bucket_index = HashMap::hash(key, self.buckets.len()) of set: t is
\* self when set is entered and d is self after self.delete(key).
SetBucketIndex(t, d, key) == hash(key, Len(d.buckets))

\* HashMap::set
set(t, key, value) ==
    LET d            == delete(t, key)
        bucket_index == SetBucketIndex(t, d, key) + 1
        pushed       == [ d EXCEPT !.buckets[bucket_index] =
                                       Append(@, << key, value >>),
                                   !.entries_count = @ + 1 ]
    IN  resize_if_necessary(pushed)

\* ------------------------------------------------------------------ caller

\* The caller's record after storing value under key.
ShadowSet(sh, key, value) ==
    [ k \in DOMAIN sh \cup { key } |-> IF k = key THEN value ELSE sh[k] ]

\* The caller's record after deleting key.
ShadowDelete(sh, key) == [ k \in DOMAIN sh \ { key } |-> sh[k] ]

\* What the caller's record holds for key.
ShadowGet(sh, key) == IF key \in DOMAIN sh THEN Some(sh[key]) ELSE None

\* What the caller notes before a call on key: both counts, read through the
\* accessors, and its own record of the key.
Before(key) ==
    [ entries_count |-> get_entries_count(Self),
      buckets_count |-> get_buckets_count(Self),
      old           |-> ShadowGet(shadow, key) ]

\* How many keys of the loop `for i in 0..n { hm.set(&i.to_string(), i) }`
\* are stored; the loop keys stored are always "0" .. LoopCount - 1.
LoopCount == Cardinality(DOMAIN shadow \cap LoopKeys)

\* The keys a caller passes in the current state: the free keys, the loop's
\* next key (absent) and the loop's last key (present).
ActiveKeys ==
    FreeKeys \cup { to_string(i) : i \in { LoopCount - 1, LoopCount } \cap (0 .. MaxLoop) }

\* The (key, value) pairs a caller stores in the current state.
SetInputs ==
    (FreeKeys \X Values)
       \cup { << to_string(i), i >> :
                  i \in { LoopCount - 1, LoopCount } \cap (0 .. (MaxLoop - 1)) }

\* The indices a caller passes to get_bucket.
BucketIndices ==
    { 0, Len(buckets) - 1, Len(buckets), Len(buckets) + 1 }

Init ==
    /\ buckets = new.buckets
    /\ entries_count = new.entries_count
    /\ printed = new.printed
    /\ call = [ op |-> "new" ]
    /\ ret = Unit
    /\ pre = [ entries_count |-> 0, buckets_count |-> 0, old |-> None ]
    /\ shadow = [ k \in {} |-> 0 ]

Set(key, value) ==
    LET t == set(Self, key, value)
    IN  /\ buckets' = t.buckets
        /\ entries_count' = t.entries_count
        /\ printed' = t.printed
        /\ call' = [ op |-> "set", key |-> key, value |-> value ]
        /\ ret' = Unit
        /\ pre' = Before(key)
        /\ shadow' = ShadowSet(shadow, key, value)

Delete(key) ==
    LET t == delete(Self, key)
    IN  /\ buckets' = t.buckets
        /\ entries_count' = t.entries_count
        /\ printed' = t.printed
        /\ call' = [ op |-> "delete", key |-> key ]
        /\ ret' = Unit
        /\ pre' = Before(key)
        /\ shadow' = ShadowDelete(shadow, key)

Get(key) ==
    /\ call' = [ op |-> "get", key |-> key ]
    /\ ret' = get(Self, key)
    /\ pre' = Before(key)
    /\ printed' = << >>
    /\ UNCHANGED << buckets, entries_count, shadow >>

GetBucket(idx) ==
    /\ call' = [ op |-> "get_bucket", idx |-> idx ]
    /\ ret' = get_bucket(Self, idx)
    /\ pre' = Before(<< >>)
    /\ printed' = << >>
    /\ UNCHANGED << buckets, entries_count, shadow >>

GetEntriesCount ==
    /\ call' = [ op |-> "get_entries_count" ]
    /\ ret' = Ok(get_entries_count(Self))
    /\ pre' = Before(<< >>)
    /\ printed' = << >>
    /\ UNCHANGED << buckets, entries_count, shadow >>

GetBucketsCount ==
    /\ call' = [ op |-> "get_buckets_count" ]
    /\ ret' = Ok(get_buckets_count(Self))
    /\ pre' = Before(<< >>)
    /\ printed' = << >>
    /\ UNCHANGED << buckets, entries_count, shadow >>

SetStep == \E kv \in SetInputs : Set(kv[1], kv[2])
DeleteStep == \E key \in ActiveKeys : Delete(key)
GetStep == \E key \in ActiveKeys : Get(key)
GetBucketStep == \E idx \in BucketIndices : GetBucket(idx)

\* The calls through &mut self, to the full depth of the loop.
Next ==
    \/ SetStep
    \/ DeleteStep

Spec == Init /\ [][Next]_vars

\* Every public call, the loop cut at MaxApiLoop keys.
NextApi ==
    \/ SetStep /\ Cardinality(DOMAIN shadow' \cap LoopKeys) <= MaxApiLoop
    \/ DeleteStep
    \/ GetStep
    \/ GetBucketStep
    \/ GetEntriesCount
    \/ GetBucketsCount

SpecApi == Init /\ [][NextApi]_vars

\* hash called on its own: the bytes keys are made of, and the keys.
HashBytes == { 0, 48, 97, 116, 127 }

RECURSIVE KeysOfLen(_)
KeysOfLen(n) ==
    IF n = 0 THEN { << >> }
    ELSE { Append(k, b) : k \in KeysOfLen(n - 1), b \in HashBytes }

\* Every key of at most MaxKeyLen of those bytes, "test", and the two-byte
\* encoding of U+00E9.
HashKeys ==
    UNION { KeysOfLen(n) : n \in 0 .. MaxKeyLen } \cup { KeyTest, << 195, 169 >> }

\* The arguments are drawn first; the call then returns the index.
InitHash ==
    /\ buckets = new.buckets
    /\ entries_count = new.entries_count
    /\ printed = new.printed
    /\ call \in { [ op |-> "hash", key |-> key, bucket_count |-> bucket_count ] :
                    key \in HashKeys, bucket_count \in 1 .. MaxHashBuckets }
    /\ ret = Unit
    /\ pre = [ entries_count |-> 0, buckets_count |-> 0, old |-> None ]
    /\ shadow = [ k \in {} |-> 0 ]

HashCall ==
    /\ call.op = "hash"
    /\ ret = Unit
    /\ ret' = Ok(hash(call.key, call.bucket_count))
    /\ UNCHANGED << buckets, entries_count, printed, call, pre, shadow >>

NextHash == HashCall

SpecHash == InitHash /\ [][NextHash]_vars

\* The resize policy on its own, on the tables the loop
\* `for i in 0..n { hm.set(&i.to_string(), i) }` builds when it runs long.
\* GrowChain[i + 1] is the bucket count after the i-th grow.
RECURSIVE GrowChainFrom(_)
GrowChainFrom(sizes) ==
    IF Len(sizes) > MaxChain THEN sizes
    ELSE GrowChainFrom(Append(sizes, GrowSize(sizes[Len(sizes)])))

GrowChain == GrowChainFrom(<< MIN_BUCKET_COUNT >>)

\* The entry counts near 1.5 * len on which a set of the loop evaluates the
\* policy while the table has len buckets: those up to the first that grows.
GrowWindow(len) ==
    LET lo == ((3 * len) \div 2) - MaxSlack
        hi == ((3 * len) \div 2) + MaxSlack
    IN  { e \in lo .. hi :
            \A below \in lo .. (e - 1) : ~GrowCond(F32Ratio(below, len)) }

\* The entry counts near 0.25 * len on which a delete of a key that is not
\* stored evaluates the policy, after deletes of stored keys.
ShrinkWindow(len) ==
    { e \in ((len \div 4) - MaxSlack) .. ((len \div 4) + MaxSlack) : e >= 0 }

PolicyInputs ==
    UNION { { [ op |-> "resize_if_necessary", entries_count |-> e, len |-> GrowChain[i] ] :
                e \in GrowWindow(GrowChain[i]) \cup ShrinkWindow(GrowChain[i]) } :
            i \in 1 .. Len(GrowChain) }

\* The two numbers are drawn first; the policy then decides.
InitPolicy ==
    /\ buckets = new.buckets
    /\ entries_count = new.entries_count
    /\ printed = new.printed
    /\ call \in PolicyInputs
    /\ ret = Unit
    /\ pre = [ entries_count |-> 0, buckets_count |-> 0, old |-> None ]
    /\ shadow = [ k \in {} |-> 0 ]

PolicyCall ==
    /\ call.op = "resize_if_necessary"
    /\ ret = Unit
    /\ ret' = Ok(resize_target(call.entries_count, call.len))
    /\ UNCHANGED << buckets, entries_count, printed, call, pre, shadow >>

NextPolicy == PolicyCall

SpecPolicy == InitPolicy /\ [][NextPolicy]_vars

\* The loop alone: `for i in 0..n { hm.set(&i.to_string(), i) }`, run forward
\* by set and backward by delete of the last key, with sets of the last key
\* again and deletes of the next key (not stored) in between.
DeepCount == Cardinality(DOMAIN shadow)

DeepSetStep ==
    \E i \in { DeepCount - 1, DeepCount } \cap (0 .. (MaxDeepLoop - 1)) :
        Set(to_string(i), i)

DeepDeleteStep ==
    \E i \in { DeepCount - 1, DeepCount } \cap (0 .. MaxDeepLoop) :
        Delete(to_string(i))

NextDeep ==
    \/ DeepSetStep
    \/ DeepDeleteStep

SpecDeep == Init /\ [][NextDeep]_vars

\* ------------------------------------------------------------- properties

\* All stored entries, bucket after bucket.
Entries == Flatten(buckets, 1)

\* The shrink condition and the shrunk size as the real-valued policy states
\* them, in exact integer arithmetic: e / b < 0.25 and b / 2 > 10 (integer
\* halving), ceil(b / 1.4).
RealShrink(e, b) == 4 * e < b /\ b \div 2 > 10
RealShrinkSize(b) == ((5 * b) + 6) \div 7

\* C1: after set(k, v), get(k) returns v, whether or not k was stored before
\* and whether or not the call resized.
RoundTrip ==
    call.op = "set" => get(Self, call.key) = Some(call.value)

\* C1 witness: a set of a key already stored, under another value, that
\* shrank the table, after which get returns the new value.
RoundTripWitness ==
    /\ call.op = "set"
    /\ pre.old.kind = "Some"
    /\ pre.old.val # call.value
    /\ printed # << >>
    /\ Len(buckets) < pre.buckets_count
    /\ get(Self, call.key) = Some(call.value)

\* C2: get_entries_count() is the number of distinct keys the caller has
\* stored and not deleted, and the sum of the bucket lengths.
CountInvariant ==
    /\ get_entries_count(Self) = Cardinality(DOMAIN shadow)
    /\ get_entries_count(Self) = Len(Entries)

\* C2 witness: MaxLoop distinct loop keys inserted into the empty table, the
\* table having grown three times on the way.
CountWitness ==
    /\ DOMAIN shadow = { to_string(i) : i \in 0 .. (MaxLoop - 1) }
    /\ get_entries_count(Self) = MaxLoop
    /\ get_buckets_count(Self) = 28

\* C3: set(k, v1) directly followed by set(k, v2): get(k) returns v2 and the
\* count is what it was after the first set.
Overwrite ==
    [][ (call.op = "set" /\ call'.op = "set" /\ call'.key = call.key)
          => /\ get(Self, call.key)' = Some(call'.value)
             /\ entries_count' = entries_count ]_vars

\* C3 witness: a set that replaced another value of its key and left the count
\* as it was.
OverwriteWitness ==
    /\ call.op = "set"
    /\ pre.old.kind = "Some"
    /\ pre.old.val # call.value
    /\ entries_count = pre.entries_count
    /\ entries_count > 1

\* C4: after delete(k), get(k) is absent; the count went down by exactly one
\* if k was stored, and is unchanged (and not below zero) if it was not.
Deletion ==
    call.op = "delete" =>
        /\ get(Self, call.key) = None
        /\ pre.old.kind = "Some" => entries_count = pre.entries_count - 1
        /\ pre.old.kind = "None" => entries_count = pre.entries_count
        /\ entries_count >= 0

\* C4 witness: a delete of a stored key that was not the only entry of its
\* bucket.
DeletionWitness ==
    /\ call.op = "delete"
    /\ pre.old.kind = "Some"
    /\ entries_count = pre.entries_count - 1
    /\ Len(buckets[hash(call.key, Len(buckets)) + 1]) > 0

\* C5: no key is stored twice, over all buckets.
KeyUniqueness ==
    LET all == Entries
    IN  \A i, j \in 1 .. Len(all) : all[i][1] = all[j][1] => i = j

\* C5 witness: a stored key was set again and the call resized the table.
KeyUniquenessWitness ==
    /\ call.op = "set"
    /\ pre.old.kind = "Some"
    /\ printed # << >>
    /\ entries_count > 2

\* C6: every entry is in the bucket its key hashes to under the current
\* bucket count.
Placement ==
    \A i \in 1 .. Len(buckets) :
        \A j \in 1 .. Len(buckets[i]) :
            hash(buckets[i][j][1], get_buckets_count(Self)) = i - 1

\* C6 witness: a call that resized a table of more than MIN_BUCKET_COUNT
\* buckets holding entries.
PlacementWitness ==
    /\ printed # << >>
    /\ pre.buckets_count > MIN_BUCKET_COUNT
    /\ entries_count > 0

\* C7: the bucket count is never below MIN_BUCKET_COUNT.
ResizeFloor == get_buckets_count(Self) >= MIN_BUCKET_COUNT

\* C7 witness: a delete shrank the table.
ResizeFloorWitness ==
    /\ call.op = "delete"
    /\ printed # << >>
    /\ get_buckets_count(Self) < pre.buckets_count

\* C8: a delete that removes a stored key and leaves entry_count /
\* bucket_count < 0.25 with bucket_count / 2 > 10 shrinks the table to
\* ceil(bucket_count / 1.4) within the call.
DeleteEvaluatesPolicy ==
    ( /\ call.op = "delete"
      /\ pre.old.kind = "Some"
      /\ RealShrink(pre.entries_count - 1, pre.buckets_count) )
        => get_buckets_count(Self) = RealShrinkSize(pre.buckets_count)

RefBasis == << 5, 2, 3, 2, 2, 2, 4, 8, 4, 14, 12, 9, 2, 15, 11, 12 >>

\* a AND b on the low n bits.
RECURSIVE RefAnd(_, _, _)
RefAnd(a, b, n) ==
    IF n = 0 THEN 0
    ELSE ((a % 2) * (b % 2)) + 2 * RefAnd(a \div 2, b \div 2, n - 1)

\* a XOR b = a + b - 2 (a AND b), on bytes.
RefXor(a, b) == a + b - 2 * RefAnd(a, b, 8)

RefXorByte(h, octet) ==
    LET x == RefXor(h[1] + 16 * h[2], octet)
    IN  [ h EXCEPT ![1] = x % 16, ![2] = x \div 16 ]

RECURSIVE RefMulFrom(_, _, _)
RefMulFrom(h, k, carry) ==
    IF k > 15 THEN << >>
    ELSE LET s == (179 * h[k + 1])
                  + (IF k >= 2 THEN h[k - 1] ELSE 0)
                  + (IF k >= 10 THEN h[k - 9] ELSE 0)
                  + carry
         IN  << s % 16 >> \o RefMulFrom(h, k + 1, s \div 16)

RECURSIVE RefFnv(_, _, _)
RefFnv(key, i, h) ==
    IF i > Len(key) THEN h
    ELSE RefFnv(key, i + 1, RefMulFrom(RefXorByte(h, key[i]), 0, 0))

RECURSIVE RefMod(_, _, _, _)
RefMod(h, n, i, r) ==
    IF i = 0 THEN r ELSE RefMod(h, n, i - 1, ((r * 16) + h[i]) % n)

\* The bytes of a number given by its hexadecimal digits.
RefBytes(h) == [ i \in 1 .. 8 |-> h[(2 * i) - 1] + 16 * h[2 * i] ]

RECURSIVE DivTen(_, _, _)
\* <<quotient, remainder>> of the u64 h divided by ten, from limb i down.
DivTen(h, i, r) ==
    IF i = 0 THEN << h, r >>
    ELSE LET cur == (r * 256) + h[i]
         IN  DivTen([ h EXCEPT ![i] = cur \div 10 ], i - 1, cur % 10)

RECURSIVE Decimal(_)
\* The decimal digits of the u64 h, most significant first.
Decimal(h) ==
    LET qr == DivTen(h, 8, 0)
    IN  IF \A i \in 1 .. 8 : qr[1][i] = 0 THEN << qr[2] >>
        ELSE Decimal(qr[1]) \o << qr[2] >>

PolicyIdempotent ==
    LET once  == resize_if_necessary(Self)
        twice == resize_if_necessary(once)
        evaluated ==
            \/ call.op = "set"
            \/ call.op = "delete" /\ pre.old.kind = "None"
    IN  /\ twice.buckets = once.buckets
        /\ evaluated =>
             /\ ~GrowCond(LoadFactor(Self))
             /\ ~ShrinkCond(LoadFactor(Self), Len(buckets))
        /\ (call.op = "delete" /\ pre.old.kind = "None")
             => get_buckets_count(Self) = pre.buckets_count

\* The grow condition and the grow size in exact arithmetic:
\* entries / buckets > 1.5 and ceil(1.4 * buckets).
RealGrow(e, b) == 2 * e > 3 * b
RealGrowSize(b) == ((7 * b) + 4) \div 5

\* The bucket counts of the last call in order: the count when it was
\* entered, then every count a resize inside it moved to.
Chain == << pre.buckets_count >> \o printed

\* C13: a set grows the table exactly when, after the new entry has been
\* appended and counted, entries / buckets > 1.5 (15 entries in 10 buckets do
\* not grow, 16 do); the new bucket count is then ceil(1.4 * buckets), reached
\* in one resize, and no call other than set ever grows the table.  The first
\* conjunct says it of the policy evaluated on its own, the second of the
\* calls.
GrowRule ==
    /\ [](call.op = "resize_if_necessary" /\ ret.kind = "Ok" =>
            /\ (ret.val > call.len) <=> RealGrow(call.entries_count, call.len)
            /\ ret.val > call.len => ret.val = RealGrowSize(call.len))
    /\ [][ /\ call'.op = "set" =>
                LET d == delete(Self, call'.key)
                    e == d.entries_count + 1
                    b == Len(d.buckets)
                IN  /\ (Len(buckets') > b) <=> RealGrow(e, b)
                    /\ entries_count' = e
                    /\ RealGrow(e, b) =>
                         /\ Len(buckets') = RealGrowSize(b)
                         /\ printed' = Append(d.printed, RealGrowSize(b))
                    /\ ~RealGrow(e, b) => Len(buckets') <= b
           /\ call'.op # "set" => Len(buckets') <= Len(buckets)
         ]_vars

Grew == call.op \in { "set", "delete" } /\ Len(buckets) > pre.buckets_count
Shrank == call.op \in { "set", "delete" } /\ Len(buckets) < pre.buckets_count

\* The last resize of the last call reduced the bucket count.
LastStepShrank ==
    /\ printed # << >>
    /\ printed[Len(printed)] < Chain[Len(printed)]

\* C15: no oscillation: the table a shrink step produces does not satisfy the
\* grow condition, the table a grow step produces does not satisfy the shrink
\* condition, and two calls in a row never resize in opposite directions.
NoOscillation ==
    /\ [](printed # << >> =>
            IF LastStepShrank
            THEN /\ ~GrowCond(LoadFactor(Self))
                 /\ ~RealGrow(entries_count, Len(buckets))
            ELSE /\ ~ShrinkCond(LoadFactor(Self), Len(buckets))
                 /\ ~RealShrink(entries_count, Len(buckets)))
    /\ [][ /\ Grew => ~Shrank'
           /\ Shrank => ~Grew' ]_vars

\* C15 witness: a set ended with fewer buckets than it started with, so the
\* table might have been expected to grow back.
NoOscillationWitness ==
    /\ call.op = "set"
    /\ Shrank
    /\ LastStepShrank

\* C16: the table holds exactly what the caller recorded: get of every key
\* gives the caller's value for it, the stored pairs are the caller's pairs,
\* and entries_count is their number.  The caller's record changes at the
\* key of a call only, so get of every other key is the same before and after
\* a set or a delete; and a resize to either size the policy may choose keeps
\* the stored pairs and entries_count.
ContentPreserved ==
    LET all == Entries
        pairs(seq) == { seq[i] : i \in 1 .. Len(seq) }
    IN  /\ \A k \in DeepLoopKeys : get(Self, k) = ShadowGet(shadow, k)
        /\ pairs(all) = { << k, shadow[k] >> : k \in DOMAIN shadow }
        /\ Len(all) = Cardinality(DOMAIN shadow)
        /\ entries_count = Len(all)
        /\ \A n \in { GrowTo(Len(buckets)), ShrinkTo(Len(buckets)) } :
              LET r == resize(Self, n)
                  moved == Flatten(r.buckets, 1)
              IN  /\ r.entries_count = entries_count
                  /\ Len(r.buckets) = n
                  /\ pairs(moved) = pairs(all)
                  /\ Len(moved) = Len(all)

\* C16 witness: a set of another key shrank the table twice while "3" was
\* stored with 3, and get("3") still gives 3.
ContentPreservedWitness ==
    /\ call.op = "set"
    /\ call.key # to_string(3)
    /\ printed = << 29, 21 >>
    /\ to_string(3) \in DOMAIN shadow
    /\ get(Self, to_string(3)) = Some(3)

\* C17: in a call without a resize, delete of a stored key removes that one
\* entry from its bucket, the entries left keep their order and every other
\* bucket is as it was; set puts (key, value) at the end of the bucket
\* hash(key, bucket count), after removing the old entry of the key if there
\* was one.
BucketOrder ==
    [][ (call'.op \in { "set", "delete" } /\ printed' = << >>) =>
          LET key  == call'.key
              b    == hash(key, Len(buckets)) + 1
              rest == SelectSeq(buckets[b], LAMBDA en : en[1] # key)
              was  == Cardinality({ i \in 1 .. Len(buckets[b]) : buckets[b][i][1] = key })
          IN  /\ Len(buckets') = Len(buckets)
              /\ \A j \in 1 .. Len(buckets) : j # b => buckets'[j] = buckets[j]
              /\ was <= 1
              /\ call'.op = "delete" =>
                   /\ buckets'[b] = rest
                   /\ Len(buckets'[b]) = Len(buckets[b]) - was
              /\ call'.op = "set" =>
                   /\ buckets'[b] = Append(rest, << key, call'.value >>)
                   /\ buckets'[b][Len(buckets'[b])] = << key, call'.value >>
      ]_vars

\* C17 witness: a set without a resize overwrote "test", which was stored
\* before other entries of its bucket: it is now the last of at least three.
BucketOrderWitness ==
    /\ call.op = "set"
    /\ call.key = KeyTest
    /\ pre.old.kind = "Some"
    /\ printed = << >>
    /\ LET v == buckets[hash(KeyTest, Len(buckets)) + 1]
       IN  /\ Len(v) >= 3
           /\ v[Len(v)][1] = KeyTest

\* C18: between calls entries_count <= 1.5 * bucket count, and the grow
\* condition is false when a call returns; one grow step is enough, so the
\* bound also holds of the counts the policy leaves when evaluated on its own
\* on the entry counts a set evaluates it on.
LoadBound ==
    /\ 2 * entries_count <= 3 * Len(buckets)
    /\ ~GrowCond(LoadFactor(Self))
    /\ (call.op = "resize_if_necessary" /\ ret.kind = "Ok") =>
          2 * call.entries_count <= 3 * ret.val

\* C19: no index is out of range and the count never goes below zero: there
\* is at least one bucket; for every key, stored or not, the index get and
\* delete use is below the bucket count, and the index set uses is below the
\* bucket count its inner delete left; every stored entry is rehashed below
\* either size a resize may take; entries_count is the number of stored
\* entries, and the last delete lowered it only if the key was stored.
NoPanic ==
    LET all == Entries
    IN  /\ Len(buckets) >= 1
        /\ entries_count >= 0
        /\ entries_count = Len(all)
        /\ \A k \in Keys \cup DeepLoopKeys :
              LET d == delete(Self, k)
              IN  /\ hash(k, Len(buckets)) < Len(buckets)
                  /\ Len(d.buckets) >= 1
                  /\ SetBucketIndex(Self, d, k) < Len(d.buckets)
        /\ \A n \in { GrowTo(Len(buckets)), ShrinkTo(Len(buckets)) } :
              /\ n >= 1
              /\ \A i \in 1 .. Len(all) : hash(all[i][1], n) < n
        /\ (call.op = "delete" /\ entries_count < pre.entries_count) =>
              /\ pre.old.kind = "Some"
              /\ entries_count = pre.entries_count - 1

\* C19 witness: a table whose shrink is pending and a key that is not
\* stored, for which the index taken before the inner delete of set would be
\* past the end of the buckets that delete leaves.
NoPanicWitness ==
    \E k \in DeepLoopKeys :
        LET d == delete(Self, k)
        IN  /\ Len(d.buckets) < Len(buckets)
            /\ hash(k, Len(buckets)) >= Len(d.buckets)

\* C20: a table that has grown never has MIN_BUCKET_COUNT buckets again: a
\* call that reduces the bucket count starts from 22 buckets or more and ends
\* with 16 or more, every single shrink step does, and a table of 14 .. 21
\* buckets is never shrunk.
NeverBackToMin ==
    /\ [](\A i \in 1 .. Len(printed) :
             printed[i] < Chain[i] => Chain[i] >= 22 /\ printed[i] >= 16)
    /\ [][ /\ Len(buckets) > MIN_BUCKET_COUNT => Len(buckets') > MIN_BUCKET_COUNT
           /\ Len(buckets') < Len(buckets) =>
                 /\ Len(buckets) >= 22
                 /\ Len(buckets') >= 16
           /\ Len(buckets) \in 14 .. 21 => Len(buckets') >= Len(buckets)
         ]_vars

\* C20 witness: a call shrank the table from 22 buckets to 16, the smallest
\* shrink there is.
NeverBackToMinWitness ==
    /\ pre.buckets_count = 22
    /\ Len(buckets) = 16
    /\ printed = << 16 >>

====
